---- MODULE Spec2Model ----
(***************************************************************************)
(* A model of gson.go: a handle type Gson over a dynamically typed JSON    *)
(* value (interface{}), with navigation (Get, GetPath, GetIndex,           *)
(* CheckGet), in-place mutation (Set, SetPath, Del) and coercion           *)
(* (Map, Array, Bool, String, Bytes, StringArray, Int, Int64, Uint64,      *)
(* Float64 and their Must variants).                                       *)
(*                                                                         *)
(* Go maps and slices are references.  They are modelled by a heap of      *)
(* cells; a value of kind "ref" names a cell.  Scalars are values.         *)
(* The modelled universe of values is the one the JSON decoder with        *)
(* UseNumber produces (nil, bool, json.Number, string, []interface{},      *)
(* map[string]interface{}); json.Number may hold any text, as it can when  *)
(* a caller inserts one with Set.  Values of Go's native numeric kinds     *)
(* are not part of the universe.                                           *)
(*                                                                         *)
(* 64-bit quantities are kept at their real width: an integer is a sign    *)
(* and a canonical sequence of decimal digits, compared digit by digit.    *)
(***************************************************************************)
EXTENDS Integers, Sequences, FiniteSets, TLC

VARIABLES heap, root, child, res, pre, calls

vars == <<heap, root, child, res, pre, calls>>

(***************************************************************************)
(* Bounds                                                                  *)
(***************************************************************************)
\* number of heap cells (maps and slices) alive at once
MaxNodes == 5
\* number of calls made on the handles in one run
MaxCalls == 2
\* longest branch handed to SetPath / GetPath
MaxPath == 2
\* longest slice built in an initial state
MaxArrayLen == 2
\* longest json.Number text enumerated over NumAlphabet
MaxTextLen == 2

Addr == 1..MaxNodes
Keys == {"a", "b"}

(***************************************************************************)
(* Values                                                                  *)
(***************************************************************************)
Nil == [t |-> "nil"]
BoolV(b) == [t |-> "bool", v |-> b]
Num(s) == [t |-> "number", v |-> s]
Str(s) == [t |-> "string", v |-> s]
Ref(a) == [t |-> "ref", v |-> a]

Free == [k |-> "free"]
MapCell(m) == [k |-> "map", m |-> m]
ArrCell(e) == [k |-> "array", e |-> e]
EmptyMap == MapCell(<<>>)

NoErr == "nil"
NoHandle == [t |-> "nohandle"]
NoRes == [op |-> "none"]
Panic == [panic |-> TRUE]

IsMap(hp, d) == d.t = "ref" /\ hp[d.v].k = "map"
IsArr(hp, d) == d.t = "ref" /\ hp[d.v].k = "array"

\* m[key] with the comma-ok form: whether key is present in a Go map
HasKey(m, key) == key \in DOMAIN m

\* m[key] = val on a Go map
Put(m, key, val) == [x \in (DOMAIN m) \cup {key} |-> IF x = key THEN val ELSE m[x]]

\* delete(m, key) on a Go map
Remove(m, key) == [x \in (DOMAIN m) \ {key} |-> m[x]]

(***************************************************************************)
(* 64-bit integers as digit sequences                                      *)
(***************************************************************************)
Digits == {"0", "1", "2", "3", "4", "5", "6", "7", "8", "9"}
DigitVal(c) ==
  CASE c = "0" -> 0 [] c = "1" -> 1 [] c = "2" -> 2 [] c = "3" -> 3 [] c = "4" -> 4
    [] c = "5" -> 5 [] c = "6" -> 6 [] c = "7" -> 7 [] c = "8" -> 8 [] c = "9" -> 9

RECURSIVE Strip(_)
\* a digit sequence without its leading zeros (zero is <<0>>)
Strip(ds) ==
  IF Len(ds) <= 1 THEN (IF ds = <<>> THEN <<0>> ELSE ds)
  ELSE IF Head(ds) = 0 THEN Strip(Tail(ds)) ELSE ds

RECURSIVE LexLT(_, _)
LexLT(a, b) ==
  IF a = <<>> THEN FALSE
  ELSE IF Head(a) # Head(b) THEN Head(a) < Head(b)
  ELSE LexLT(Tail(a), Tail(b))

\* a < b on canonical digit sequences
BigLT(a, b) == Len(a) < Len(b) \/ (Len(a) = Len(b) /\ LexLT(a, b))
BigLE(a, b) == a = b \/ BigLT(a, b)

\* 1<<64 - 1
MaxUint64 == <<1,8,4,4,6,7,4,4,0,7,3,7,0,9,5,5,1,6,1,5>>
\* (1<<64 - 1)/10 + 1
CutoffUint64 == <<1,8,4,4,6,7,4,4,0,7,3,7,0,9,5,5,1,6,2>>
\* 1<<63
TwoTo63 == <<9,2,2,3,3,7,2,0,3,6,8,5,4,7,7,5,8,0,8>>
\* 1<<63 - 1
MaxInt64 == <<9,2,2,3,3,7,2,0,3,6,8,5,4,7,7,5,8,0,7>>

IntVal(neg, mag) == [neg |-> neg /\ mag # <<0>>, mag |-> mag]
Zero == IntVal(FALSE, <<0>>)

(***************************************************************************)
(* strconv, as json.Number.Int64 / Uint64 / Float64 call it                *)
(* (base 10, bitSize 64).  A text is a sequence of one-character strings.  *)
(***************************************************************************)
RECURSIVE ParseUintLoop(_, _)
\* the digit loop of strconv.ParseUint: a non-digit is a syntax error, a value
\* past 1<<64 - 1 is a range error that returns the largest value
ParseUintLoop(s, n) ==
  IF s = <<>> THEN [val |-> IntVal(FALSE, n), err |-> NoErr]
  ELSE IF Head(s) \notin Digits THEN [val |-> Zero, err |-> "syntax"]
  ELSE IF BigLE(CutoffUint64, n) THEN [val |-> IntVal(FALSE, MaxUint64), err |-> "range"]
  ELSE LET n1 == Strip(Append(n, DigitVal(Head(s))))
       IN IF BigLT(MaxUint64, n1)
          THEN [val |-> IntVal(FALSE, MaxUint64), err |-> "range"]
          ELSE ParseUintLoop(Tail(s), n1)

\* strconv.ParseUint(s, 10, 64): no sign is permitted
ParseUint(s) ==
  IF s = <<>> THEN [val |-> Zero, err |-> "syntax"]
  ELSE ParseUintLoop(s, <<0>>)

\* strconv.ParseInt(s, 10, 64): an optional sign, then ParseUint, then the
\* check against 1<<63
ParseInt(s) ==
  IF s = <<>> THEN [val |-> Zero, err |-> "syntax"]
  ELSE LET neg == Head(s) = "-"
           body == IF Head(s) \in {"+", "-"} THEN Tail(s) ELSE s
           un == ParseUint(body)
       IN IF un.err = "syntax" THEN [val |-> Zero, err |-> "syntax"]
          ELSE IF ~neg /\ BigLE(TwoTo63, un.val.mag)
          THEN [val |-> IntVal(FALSE, MaxInt64), err |-> "range"]
          ELSE IF neg /\ BigLT(TwoTo63, un.val.mag)
          THEN [val |-> IntVal(TRUE, TwoTo63), err |-> "range"]
          ELSE [val |-> IntVal(neg, un.val.mag), err |-> NoErr]

RECURSIVE AllDigits(_)
AllDigits(s) == s = <<>> \/ (Head(s) \in Digits /\ AllDigits(Tail(s)))

RECURSIVE ToDigits(_)
ToDigits(s) == IF s = <<>> THEN <<>> ELSE <<DigitVal(Head(s))>> \o ToDigits(Tail(s))

RECURSIVE StripTrailing(_)
StripTrailing(ds) ==
  IF ds = <<>> THEN <<>>
  ELSE IF ds[Len(ds)] = 0 THEN StripTrailing(SubSeq(ds, 1, Len(ds) - 1)) ELSE ds

\* position of the first occurrence of c in s, or 0
IndexOf(s, c) ==
  IF \E i \in 1..Len(s) : s[i] = c
  THEN CHOOSE i \in 1..Len(s) : s[i] = c /\ \A j \in 1..(i - 1) : s[j] # c
  ELSE 0

\* strconv.ParseFloat(s, 64) on plain decimal texts: an optional sign, digits
\* with at most one point and at least one digit.  The float64 is represented
\* by the decimal it is read from: sign, integer part, fraction without
\* trailing zeros (the rounding to 53 bits is not represented).  The texts of
\* the model carry no exponent, "inf" or "nan".
ParseFloat(s) ==
  LET neg == s # <<>> /\ Head(s) = "-"
      body == IF s # <<>> /\ Head(s) \in {"+", "-"} THEN Tail(s) ELSE s
      p == IndexOf(body, ".")
      ip == IF p = 0 THEN body ELSE SubSeq(body, 1, p - 1)
      fp == IF p = 0 THEN <<>> ELSE SubSeq(body, p + 1, Len(body))
  IN IF AllDigits(ip) /\ AllDigits(fp) /\ Len(ip) + Len(fp) > 0
     THEN [val |-> [neg |-> neg, int |-> Strip(ToDigits(ip)),
                    frac |-> StripTrailing(ToDigits(fp))],
           err |-> NoErr]
     ELSE [val |-> [neg |-> FALSE, int |-> <<0>>, frac |-> <<>>], err |-> "syntax"]

(***************************************************************************)
(* Coercer: the strict accessors.  Each returns its two results as a       *)
(* record [val, err]; err = NoErr is Go's nil error.                       *)
(***************************************************************************)
TypeErr == "type assertion failed"
InvalidType == "invalid value type"
NilMap == [nilmap |-> TRUE]
NilSlice == [nilslice |-> TRUE]
\* a []string with the elements q
StringSlice(q) == [strings |-> q]

\* Map type asserts to map[string]interface{}
Map(hp, d) ==
  IF IsMap(hp, d) THEN [val |-> d, err |-> NoErr]
  ELSE [val |-> NilMap, err |-> TypeErr]

\* Array type asserts to []interface{}
Array(hp, d) ==
  IF IsArr(hp, d) THEN [val |-> d, err |-> NoErr]
  ELSE [val |-> NilSlice, err |-> TypeErr]

Bool(d) ==
  IF d.t = "bool" THEN [val |-> d.v, err |-> NoErr]
  ELSE [val |-> FALSE, err |-> TypeErr]

String(d) ==
  IF d.t = "string" THEN [val |-> d.v, err |-> NoErr]
  ELSE [val |-> "", err |-> TypeErr]

\* []byte(s): the bytes of the string, here the string itself tagged as bytes
Bytes(d) ==
  IF d.t = "string" THEN [val |-> [bytes |-> d.v], err |-> NoErr]
  ELSE [val |-> NilSlice, err |-> TypeErr]

RECURSIVE StringArrayLoop(_, _, _)
\* the loop of StringArray over arr, with retArr built so far and err the
\* error Array() returned
StringArrayLoop(arr, retArr, err) ==
  IF arr = <<>> THEN [val |-> StringSlice(retArr), err |-> NoErr]
  ELSE LET a == Head(arr)
       IN IF a = Nil THEN StringArrayLoop(Tail(arr), Append(retArr, ""), err)
          ELSE IF a.t # "string" THEN [val |-> NilSlice, err |-> err]
          ELSE StringArrayLoop(Tail(arr), Append(retArr, a.v), err)

\* StringArray type asserts to an array of string
StringArray(hp, d) ==
  LET r == Array(hp, d)
  IN IF r.err # NoErr THEN [val |-> NilSlice, err |-> r.err]
     ELSE StringArrayLoop(hp[d.v].e, <<>>, r.err)

ZeroFloat == [neg |-> FALSE, int |-> <<0>>, frac |-> <<>>]

\* Float64 coerces into a float64
Float64(d) ==
  IF d.t = "number" THEN ParseFloat(d.v)
  ELSE [val |-> ZeroFloat, err |-> InvalidType]

\* Int64 that returns ParseInt's value and drops its error
Int64DropsErr(d) ==
  IF d.t = "number" THEN [val |-> ParseInt(d.v).val, err |-> NoErr]
  ELSE [val |-> Zero, err |-> InvalidType]

\* Int64 coerces into an int64
Int64(d) ==
  IF d.t = "number" THEN ParseInt(d.v)
  ELSE [val |-> Zero, err |-> InvalidType]

\* Int coerces into an int: int(i) of Int64's result, with its error (int is
\* 64 bits wide on the modelled platform)
IntOf(d) ==
  IF d.t = "number" THEN LET r == ParseInt(d.v) IN [val |-> r.val, err |-> r.err]
  ELSE [val |-> Zero, err |-> InvalidType]

\* Uint64 coerces into an uint64
Uint64(d) ==
  IF d.t = "number" THEN ParseUint(d.v)
  ELSE [val |-> Zero, err |-> InvalidType]

(***************************************************************************)
(* Coercer: the Must accessors.  args is the sequence of defaults the       *)
(* caller passed; more than one is log.Panicf.                              *)
(***************************************************************************)
\* the switch on len(args) and the final choice between the strict accessor's
\* value and def, shared by every Must accessor; zero is the zero value of
\* the result type
Must(r, args, zero) ==
  IF Len(args) > 1 THEN Panic
  ELSE LET def == IF Len(args) = 1 THEN args[1] ELSE zero
       IN IF r.err = NoErr THEN r.val ELSE def

MustArray(hp, d, args) == Must(Array(hp, d), args, NilSlice)
MustMap(hp, d, args) == Must(Map(hp, d), args, NilMap)
MustString(d, args) == Must(String(d), args, "")
MustStringArray(hp, d, args) == Must(StringArray(hp, d), args, NilSlice)
MustInt(d, args) == Must(IntOf(d), args, Zero)
MustFloat64(d, args) == Must(Float64(d), args, ZeroFloat)
MustBool(d, args) == Must(Bool(d), args, FALSE)
MustInt64(d, args) == Must(Int64(d), args, Zero)
MustUint64(d, args) == Must(Uint64(d), args, Zero)

(***************************************************************************)
(* Navigator.  A returned *Gson is represented by its data; CheckGet's nil  *)
(* pointer is NoHandle.                                                     *)
(***************************************************************************)
Get(hp, d, key) ==
  LET r == Map(hp, d)
  IN IF r.err = NoErr /\ HasKey(hp[d.v].m, key) THEN hp[d.v].m[key] ELSE Nil

RECURSIVE GetPath(_, _, _)
GetPath(hp, d, branch) ==
  IF branch = <<>> THEN d ELSE GetPath(hp, Get(hp, d, Head(branch)), Tail(branch))

\* a[index] with index < 0 passes the test len(a) > index and is a run-time
\* panic (index out of range)
GetIndex(hp, d, index) ==
  LET r == Array(hp, d)
  IN IF r.err = NoErr /\ Len(hp[d.v].e) > index
     THEN (IF index < 0 THEN Panic ELSE hp[d.v].e[index + 1])
     ELSE Nil

\* CheckGet that takes a nil child for a missing key
CheckGetNonNil(hp, d, key) ==
  LET r == Map(hp, d)
  IN IF r.err = NoErr /\ HasKey(hp[d.v].m, key) /\ hp[d.v].m[key] # Nil
     THEN [h |-> hp[d.v].m[key], found |-> TRUE]
     ELSE [h |-> NoHandle, found |-> FALSE]

CheckGet(hp, d, key) ==
  LET r == Map(hp, d)
  IN IF r.err = NoErr /\ HasKey(hp[d.v].m, key)
     THEN [h |-> hp[d.v].m[key], found |-> TRUE]
     ELSE [h |-> NoHandle, found |-> FALSE]

(***************************************************************************)
(* The heap: allocation and collection                                     *)
(***************************************************************************)
\* the cells a value refers to directly
RefsOf(d) == IF d.t = "ref" THEN {d.v} ELSE {}

\* the cells a cell refers to
Succ(hp, a) ==
  CASE hp[a].k = "map" -> UNION {RefsOf(hp[a].m[x]) : x \in DOMAIN hp[a].m}
    [] hp[a].k = "array" -> UNION {RefsOf(hp[a].e[i]) : i \in 1..Len(hp[a].e)}
    [] OTHER -> {}

RECURSIVE Reach(_, _)
\* the cells reachable from the cells S
Reach(hp, S) ==
  LET T == S \cup UNION {Succ(hp, a) : a \in S}
  IN IF T = S THEN S ELSE Reach(hp, T)

\* what the garbage collector leaves: the cells reachable from the values ds
Collect(hp, ds) ==
  LET live == Reach(hp, UNION {RefsOf(d) : d \in ds})
  IN [a \in Addr |-> IF a \in live THEN hp[a] ELSE Free]

FreeCells(hp) == {a \in Addr : hp[a] = Free}

\* the cell make(map[string]interface{}) returns; 0 when the model's heap is full
Fresh(hp) == IF FreeCells(hp) = {} THEN 0 ELSE CHOOSE a \in FreeCells(hp) : \A b \in FreeCells(hp) : a <= b

\* make(map[string]interface{}) stored in cell a
MakeMap(hp, a) == [hp EXCEPT ![a] = EmptyMap]

(***************************************************************************)
(* Mutator.  Each operator returns the heap and the handle's data after    *)
(* the call, as [hp, d]; full is TRUE when the model's heap had no cell    *)
(* left for a make().                                                      *)
(***************************************************************************)
\* Set that writes into a copy of the map: the write is lost
SetOnCopy(hp, d, key, val) == [hp |-> hp, d |-> d, full |-> FALSE]

\* Set modifies the map by key and value; not a map: return
Set(hp, d, key, val) ==
  IF Map(hp, d).err # NoErr THEN [hp |-> hp, d |-> d, full |-> FALSE]
  ELSE [hp |-> [hp EXCEPT ![d.v].m = Put(@, key, val)], d |-> d, full |-> FALSE]

\* Del deletes key if it is present; not a map: return
Del(hp, d, key) ==
  IF Map(hp, d).err # NoErr THEN [hp |-> hp, d |-> d, full |-> FALSE]
  ELSE [hp |-> [hp EXCEPT ![d.v].m = Remove(@, key)], d |-> d, full |-> FALSE]

RECURSIVE SetPathLoopNoDescend(_, _, _, _)
\* SetPath's loop without "curr = n" after a missing key: the new map is stored
\* and the walk goes on in the old one
SetPathLoopNoDescend(hp, curr, branch, val) ==
  IF Len(branch) = 1
  THEN [hp |-> [hp EXCEPT ![curr].m = Put(@, branch[1], val)], full |-> FALSE]
  ELSE LET b == Head(branch)
           m == hp[curr].m
           n == Fresh(hp)
           hpn == [MakeMap(hp, n) EXCEPT ![curr].m = Put(@, b, Ref(n))]
       IN IF ~HasKey(m, b)
          THEN (IF n = 0 THEN [hp |-> hp, full |-> TRUE]
                ELSE SetPathLoopNoDescend(hpn, curr, Tail(branch), val))
          ELSE IF ~IsMap(hp, m[b])
          THEN (IF n = 0 THEN [hp |-> hp, full |-> TRUE]
                ELSE SetPathLoopNoDescend(hpn, hpn[curr].m[b].v, Tail(branch), val))
          ELSE SetPathLoopNoDescend(hp, m[b].v, Tail(branch), val)

RECURSIVE SetPathLoopKeepsValue(_, _, _, _)
\* SetPath's loop without the replacement of a value that is not a map: the
\* walk stops there and nothing is written
SetPathLoopKeepsValue(hp, curr, branch, val) ==
  IF Len(branch) = 1
  THEN [hp |-> [hp EXCEPT ![curr].m = Put(@, branch[1], val)], full |-> FALSE]
  ELSE LET b == Head(branch)
           m == hp[curr].m
           n == Fresh(hp)
           hpn == [MakeMap(hp, n) EXCEPT ![curr].m = Put(@, b, Ref(n))]
       IN IF ~HasKey(m, b)
          THEN (IF n = 0 THEN [hp |-> hp, full |-> TRUE]
                ELSE SetPathLoopKeepsValue(hpn, n, Tail(branch), val))
          ELSE IF ~IsMap(hp, m[b])
          THEN [hp |-> hp, full |-> FALSE]
          ELSE SetPathLoopKeepsValue(hp, m[b].v, Tail(branch), val)

RECURSIVE SetPathLoopSelf(_, _, _, _)
\* SetPath's loop storing the current map, not the new one, under a missing key
SetPathLoopSelf(hp, curr, branch, val) ==
  IF Len(branch) = 1
  THEN [hp |-> [hp EXCEPT ![curr].m = Put(@, branch[1], val)], full |-> FALSE]
  ELSE LET b == Head(branch)
           m == hp[curr].m
           n == Fresh(hp)
           hpn == [MakeMap(hp, n) EXCEPT ![curr].m = Put(@, b, Ref(n))]
       IN IF ~HasKey(m, b)
          THEN SetPathLoopSelf([hp EXCEPT ![curr].m = Put(@, b, Ref(curr))],
                               curr, Tail(branch), val)
          ELSE IF ~IsMap(hp, m[b])
          THEN (IF n = 0 THEN [hp |-> hp, full |-> TRUE]
                ELSE SetPathLoopSelf(hpn, hpn[curr].m[b].v, Tail(branch), val))
          ELSE SetPathLoopSelf(hp, m[b].v, Tail(branch), val)

RECURSIVE SetPathLoop(_, _, _, _)
\* the for loop of SetPath from map cell curr over the branch left, and the
\* final curr[branch[len(branch)-1]] = val
SetPathLoop(hp, curr, branch, val) ==
  IF Len(branch) = 1
  THEN [hp |-> [hp EXCEPT ![curr].m = Put(@, branch[1], val)], full |-> FALSE]
  ELSE LET b == Head(branch)
           m == hp[curr].m
           n == Fresh(hp)
           \* n := make(map[string]interface{}); curr[b] = n
           hpn == [MakeMap(hp, n) EXCEPT ![curr].m = Put(@, b, Ref(n))]
       IN IF ~HasKey(m, b)
          THEN (IF n = 0 THEN [hp |-> hp, full |-> TRUE]
                ELSE SetPathLoop(hpn, n, Tail(branch), val))
          ELSE IF ~IsMap(hp, m[b])
          THEN (IF n = 0 THEN [hp |-> hp, full |-> TRUE]
                ELSE SetPathLoop(hpn, hpn[curr].m[b].v, Tail(branch), val))
          ELSE SetPathLoop(hp, m[b].v, Tail(branch), val)

\* SetPath that returns when the data is not a map, as Set and Del do
SetPathNoRootReplace(hp, d, branch, val) ==
  IF Len(branch) = 0 THEN [hp |-> hp, d |-> val, full |-> FALSE]
  ELSE IF ~IsMap(hp, d) THEN [hp |-> hp, d |-> d, full |-> FALSE]
  ELSE LET r == SetPathLoop(hp, d.v, branch, val)
       IN [hp |-> r.hp, d |-> d, full |-> r.full]

\* SetPath: an empty branch rebinds the handle's data; otherwise the data is
\* made a map (replaced by a fresh one when it is not) and the branch walked
SetPath(hp, d, branch, val) ==
  IF Len(branch) = 0 THEN [hp |-> hp, d |-> val, full |-> FALSE]
  ELSE IF ~IsMap(hp, d)
  THEN LET n == Fresh(hp)
       IN IF n = 0 THEN [hp |-> hp, d |-> d, full |-> TRUE]
          ELSE LET r == SetPathLoop(MakeMap(hp, n), n, branch, val)
               IN [hp |-> r.hp, d |-> Ref(n), full |-> r.full]
  ELSE LET r == SetPathLoop(hp, d.v, branch, val)
       IN [hp |-> r.hp, d |-> d, full |-> r.full]

(***************************************************************************)
(* The state machine.  root is the data of the handle the program built;   *)
(* child is the data of a handle a navigation call returned (NoHandle      *)
(* before any).  A call runs to completion: res holds what it was given    *)
(* and what it returned, pre the heap and handles it started from.  The    *)
(* caller then drops the result (Discard) and makes its next call.         *)
(***************************************************************************)
Handles == {"root", "child"}
Data(hn) == IF hn = "root" THEN root ELSE child
Usable(hn) == res = NoRes /\ calls < MaxCalls /\ Data(hn) # NoHandle

NoPre == [none |-> TRUE]
Snapshot == [heap |-> heap, root |-> root, child |-> child]

RECURSIVE SeqsUpTo(_, _)
\* the sequences over S of length at most n
SeqsUpTo(S, n) ==
  IF n = 0 THEN {<<>>}
  ELSE LET R == SeqsUpTo(S, n - 1)
       IN R \cup {Append(q, x) : q \in {r \in R : Len(r) = n - 1}, x \in S}

Branches == SeqsUpTo(Keys, MaxPath)

\* the scalars a caller of Set / SetPath passes in
InsertScalars == {Num(<<"7">>)}

EmptyHeap == [a \in Addr |-> Free]

\* the value the caller passed and still holds
Held(rs) == IF rs.op \in {"Set", "SetPath"} THEN {rs.val} ELSE {}

\* the state a call leaves: handles, result, and the heap without garbage
Finish(hp, r, c, rs, pr) ==
  /\ heap' = Collect(hp, {r, c} \cup Held(rs))
  /\ root' = r
  /\ child' = c
  /\ res' = rs
  /\ pre' = pr
  /\ calls' = IF rs = NoRes THEN calls ELSE calls + 1

\* a mutator call on handle hn with outcome o = [hp, d, full]
Mutated(hn, o, rs) ==
  /\ ~o.full
  /\ Finish(o.hp, IF hn = "root" THEN o.d ELSE root,
            IF hn = "child" THEN o.d ELSE child, rs, Snapshot)

\* the val a caller passes, as [hp, val, src]: a scalar, a map the caller has
\* just made (hp is the heap with it), or what Interface() / Map() / Array()
\* of a handle returned
ValArgs ==
  {[hp |-> heap, val |-> x, src |-> "scalar"] : x \in InsertScalars}
    \cup {[hp |-> MakeMap(heap, Fresh(heap)), val |-> Ref(Fresh(heap)), src |-> "make"] :
            x \in {y \in {0} : Fresh(heap) # 0}}
    \cup {[hp |-> heap, val |-> Data(hn), src |-> hn] :
            hn \in {h \in Handles : Data(h) # NoHandle}}

CallSet(hn, key) ==
  /\ Usable(hn)
  /\ \E a \in ValArgs :
       Mutated(hn, Set(a.hp, Data(hn), key, a.val),
               [op |-> "Set", h |-> hn, key |-> key, val |-> a.val, src |-> a.src])

CallDel(hn, key) ==
  /\ Usable(hn)
  /\ Mutated(hn, Del(heap, Data(hn), key), [op |-> "Del", h |-> hn, key |-> key])

CallSetPath(hn, branch) ==
  /\ Usable(hn)
  /\ \E a \in ValArgs :
       Mutated(hn, SetPath(a.hp, Data(hn), branch, a.val),
               [op |-> "SetPath", h |-> hn, branch |-> branch, val |-> a.val,
                src |-> a.src])

\* a navigation call: the caller keeps the returned handle as child
CallGet(hn, key) ==
  /\ Usable(hn)
  /\ LET out == Get(heap, Data(hn), key)
     IN Finish(heap, root, out,
               [op |-> "Get", h |-> hn, d |-> Data(hn), key |-> key, out |-> out], NoPre)

\* the caller drops the result of its last call before the next one
Discard ==
  /\ res # NoRes
  /\ calls < MaxCalls
  /\ Finish(heap, root, child, NoRes, NoPre)

\* New(): an empty map.  NewGson(body): what the decoder builds from body,
\* here from {"a":[1,2,3],"b":{"a":null}}
InitDocs ==
  { [heap |-> [EmptyHeap EXCEPT ![1] = EmptyMap], root |-> Ref(1)],
    [heap |-> [EmptyHeap EXCEPT
                 ![1] = MapCell([x \in {"a", "b"} |-> IF x = "a" THEN Ref(2) ELSE Ref(3)]),
                 ![2] = ArrCell(<<Num(<<"1">>), Num(<<"2">>), Num(<<"3">>)>>),
                 ![3] = MapCell([x \in {"a"} |-> Nil])],
     root |-> Ref(1)] }

Init ==
  /\ \E doc \in InitDocs : heap = doc.heap /\ root = doc.root
  /\ child = NoHandle
  /\ res = NoRes
  /\ pre = NoPre
  /\ calls = 0

Next ==
  \/ \E hn \in Handles, key \in Keys : CallSet(hn, key)
  \/ \E hn \in Handles, key \in Keys : CallDel(hn, key)
  \/ \E hn \in Handles, branch \in Branches : CallSetPath(hn, branch)
  \/ \E hn \in Handles, key \in Keys : CallGet(hn, key)
  \/ Discard

Spec == Init /\ [][Next]_vars

(***************************************************************************)
(* Reading: navigation and coercion calls over a decoded or hand-built     *)
(* value.  The same handles and calls, started from a wider set of         *)
(* values; none of these calls changes the heap.                           *)
(***************************************************************************)
NumAlphabet == {"-", "+", "0", "1", "."}

\* json.Number texts at the edges of the 64-bit ranges, and two ordinary ones
EdgeTexts ==
  { <<"4","2">>, <<"1",".","5">>, <<"-","1","0">>,
    <<"9","2","2","3","3","7","2","0","3","6","8","5","4","7","7","5","8","0","7">>,
    <<"9","2","2","3","3","7","2","0","3","6","8","5","4","7","7","5","8","0","8">>,
    <<"-","9","2","2","3","3","7","2","0","3","6","8","5","4","7","7","5","8","0","8">>,
    <<"-","9","2","2","3","3","7","2","0","3","6","8","5","4","7","7","5","8","0","9">>,
    <<"1","8","4","4","6","7","4","4","0","7","3","7","0","9","5","5","1","6","1","5">>,
    <<"1","8","4","4","6","7","4","4","0","7","3","7","0","9","5","5","1","6","1","6">>,
    <<"9","9","9","9","9","9","9","9","9","9","9","9","9","9","9","9","9","9","9","9">>,
    <<"0","0","0","1","8","4","4","6","7","4","4","0","7","3","7","0","9","5","5","1","6","1","5">> }

NumTexts == SeqsUpTo(NumAlphabet, MaxTextLen) \cup EdgeTexts

ReadScalars == {Nil, BoolV(TRUE), Str("a")} \cup {Num(t) : t \in NumTexts}
ArrElems == {Nil, Str("a"), Num(<<"2">>), BoolV(FALSE)}
MapElems == {Nil, Str("a"), Num(<<"2">>)}
MapsOver(S) == UNION {[D -> S] : D \in SUBSET Keys}

\* the values a decoded document or a hand-built tree holds at its root
ReadDocs ==
  {[heap |-> EmptyHeap, root |-> x] : x \in ReadScalars}
    \cup {[heap |-> [EmptyHeap EXCEPT ![1] = ArrCell(e)], root |-> Ref(1)] :
            e \in SeqsUpTo(ArrElems, MaxArrayLen)}
    \cup {[heap |-> [EmptyHeap EXCEPT ![1] = MapCell(m)], root |-> Ref(1)] :
            m \in MapsOver(MapElems)}

InitRead ==
  /\ \E doc \in ReadDocs : heap = doc.heap /\ root = doc.root
  /\ child = NoHandle
  /\ res = NoRes
  /\ pre = NoPre
  /\ calls = 0

\* a call that returns a value and changes nothing
Returned(rs) == Finish(heap, root, child, rs, NoPre)

Indices == (0 - 2)..(MaxArrayLen + 1)

CallGetPath(hn, branch) ==
  /\ Usable(hn)
  /\ LET out == GetPath(heap, Data(hn), branch)
     IN Finish(heap, root, out,
               [op |-> "GetPath", h |-> hn, d |-> Data(hn), branch |-> branch,
                out |-> out], NoPre)

\* the caller keeps the returned handle as child, unless the call panicked
CallGetIndex(hn, index) ==
  /\ Usable(hn)
  /\ LET out == GetIndex(heap, Data(hn), index)
     IN Finish(heap, root, IF out = Panic THEN child ELSE out,
               [op |-> "GetIndex", h |-> hn, d |-> Data(hn), index |-> index,
                out |-> out], NoPre)

CallCheckGet(hn, key) ==
  /\ Usable(hn)
  /\ LET out == CheckGet(heap, Data(hn), key)
     IN Finish(heap, root, IF out.found THEN out.h ELSE child,
               [op |-> "CheckGet", h |-> hn, d |-> Data(hn), key |-> key,
                out |-> out.h, found |-> out.found], NoPre)

StrictOps == {"Map", "Array", "Bool", "String", "Bytes", "StringArray",
              "Int", "Int64", "Uint64", "Float64"}

\* the strict accessor named op on data d
Strict(op, hp, d) ==
  CASE op = "Map" -> Map(hp, d)
    [] op = "Array" -> Array(hp, d)
    [] op = "Bool" -> Bool(d)
    [] op = "String" -> String(d)
    [] op = "Bytes" -> Bytes(d)
    [] op = "StringArray" -> StringArray(hp, d)
    [] op = "Int" -> IntOf(d)
    [] op = "Int64" -> Int64(d)
    [] op = "Uint64" -> Uint64(d)
    [] op = "Float64" -> Float64(d)

CallStrict(hn, op) ==
  /\ Usable(hn)
  /\ LET r == Strict(op, heap, Data(hn))
     IN Returned([op |-> op, h |-> hn, d |-> Data(hn), out |-> r.val, err |-> r.err])

MustOps == {"MustArray", "MustMap", "MustString", "MustStringArray", "MustBool",
            "MustInt", "MustInt64", "MustUint64", "MustFloat64"}

\* the strict accessor a Must accessor calls
StrictOf(op) ==
  CASE op = "MustArray" -> "Array"
    [] op = "MustMap" -> "Map"
    [] op = "MustString" -> "String"
    [] op = "MustStringArray" -> "StringArray"
    [] op = "MustBool" -> "Bool"
    [] op = "MustInt" -> "Int"
    [] op = "MustInt64" -> "Int64"
    [] op = "MustUint64" -> "Uint64"
    [] op = "MustFloat64" -> "Float64"

\* a default a caller passes to the Must accessor named op
DefaultOf(op) ==
  CASE op = "MustArray" -> [slice |-> "default"]
    [] op = "MustMap" -> [map |-> "default"]
    [] op = "MustString" -> "fallback"
    [] op = "MustStringArray" -> StringSlice(<<"fallback">>)
    [] op = "MustBool" -> TRUE
    [] op = "MustInt" -> IntVal(FALSE, <<5, 1, 5, 0>>)
    [] op = "MustInt64" -> IntVal(FALSE, <<5, 1, 5, 0>>)
    [] op = "MustUint64" -> IntVal(FALSE, <<5, 1, 5, 0>>)
    [] op = "MustFloat64" -> [neg |-> FALSE, int |-> <<5>>, frac |-> <<1, 5>>]

\* the Must accessor named op on data d with the defaults args
MustCall(op, hp, d, args) ==
  CASE op = "MustArray" -> MustArray(hp, d, args)
    [] op = "MustMap" -> MustMap(hp, d, args)
    [] op = "MustString" -> MustString(d, args)
    [] op = "MustStringArray" -> MustStringArray(hp, d, args)
    [] op = "MustBool" -> MustBool(d, args)
    [] op = "MustInt" -> MustInt(d, args)
    [] op = "MustInt64" -> MustInt64(d, args)
    [] op = "MustUint64" -> MustUint64(d, args)
    [] op = "MustFloat64" -> MustFloat64(d, args)

\* no default, one default, or (a misuse) two
ArgsOf(op) == {<<>>, <<DefaultOf(op)>>, <<DefaultOf(op), DefaultOf(op)>>}

CallMust(hn, op) ==
  /\ Usable(hn)
  /\ \E args \in ArgsOf(op) :
       Returned([op |-> op, h |-> hn, d |-> Data(hn), args |-> args,
                 out |-> MustCall(op, heap, Data(hn), args)])

NextRead ==
  \/ \E hn \in Handles, key \in Keys : CallGet(hn, key)
  \/ \E hn \in Handles, branch \in Branches : CallGetPath(hn, branch)
  \/ \E hn \in Handles, index \in Indices : CallGetIndex(hn, index)
  \/ \E hn \in Handles, key \in Keys : CallCheckGet(hn, key)
  \/ \E hn \in Handles, op \in StrictOps : CallStrict(hn, op)
  \/ \E hn \in Handles, op \in MustOps : CallMust(hn, op)
  \/ Discard

SpecRead == InitRead /\ [][NextRead]_vars

(***************************************************************************)
(* Properties.  What the specification text says of a call is stated here  *)
(* on its own terms and compared with what the call returned.              *)
(***************************************************************************)
\* the elements of the slice d refers to
Elems(hp, d) == hp[d.v].e
\* the Go map d refers to
Entries(hp, d) == hp[d.v].m

\* C1: GetIndex returns the element at index when the value is an Array and
\* 0 <= index < length, and a Null-wrapped handle otherwise; it never panics.
C1_GetIndexTotal ==
  res.op = "GetIndex" =>
    res.out = IF IsArr(heap, res.d) /\ 0 <= res.index
                   /\ res.index < Len(Elems(heap, res.d))
              THEN Elems(heap, res.d)[res.index + 1]
              ELSE Nil

\* every element of the Array is Null or a String
AllNilOrString(e) == \A i \in 1..Len(e) : e[i] = Nil \/ e[i].t = "string"
\* the strings of such an Array, Null as the empty string
AsStrings(e) == [i \in 1..Len(e) |-> IF e[i] = Nil THEN "" ELSE e[i].v]

\* C2: StringArray succeeds exactly on an Array whose elements are all Null or
\* String; on any other element it fails with a non-nil error and no partial
\* result.
C2_StringArrayAllOrNothing ==
  res.op = "StringArray" =>
    IF IsArr(heap, res.d) /\ AllNilOrString(Elems(heap, res.d))
    THEN res.err = NoErr /\ res.out = StringSlice(AsStrings(Elems(heap, res.d)))
    ELSE res.err # NoErr /\ res.out = NilSlice

\* the shape the coercion behind a Must accessor accepts, as specified
Accepts(op, hp, d) ==
  IF op = "MustStringArray" THEN IsArr(hp, d) /\ AllNilOrString(Elems(hp, d))
  ELSE Strict(StrictOf(op), hp, d).err = NoErr

\* the zero value of a Must accessor's result type
ZeroOf(op) ==
  CASE op = "MustArray" -> NilSlice
    [] op = "MustMap" -> NilMap
    [] op = "MustString" -> ""
    [] op = "MustStringArray" -> NilSlice
    [] op = "MustBool" -> FALSE
    [] op \in {"MustInt", "MustInt64", "MustUint64"} -> Zero
    [] op = "MustFloat64" -> ZeroFloat

\* C3: every Must accessor, given at most one default, returns the coerced
\* value when the value has a shape the coercion accepts and exactly the
\* default (the zero value when none is given) otherwise.
C3_MustDefault ==
  (res.op \in MustOps /\ Len(res.args) <= 1) =>
    res.out = IF Accepts(res.op, heap, res.d)
              THEN Strict(StrictOf(res.op), heap, res.d).val
              ELSE IF Len(res.args) = 1 THEN res.args[1] ELSE ZeroOf(res.op)

\* decimal integer text: an optional sign and at least one digit
Signed(s) == s # <<>> /\ Head(s) \in {"+", "-"}
Unsigned(s) == IF Signed(s) THEN Tail(s) ELSE s
IsIntegerText(s) == Unsigned(s) # <<>> /\ AllDigits(Unsigned(s))
\* the integer n such a text denotes
IntegerOf(s) == IntVal(Head(s) = "-", Strip(ToDigits(Unsigned(s))))
\* -2^63 <= n <= 2^63 - 1
InInt64(n) == IF n.neg THEN BigLE(n.mag, TwoTo63) ELSE BigLE(n.mag, MaxInt64)
\* 0 <= n <= 2^64 - 1
InUint64(n) == ~n.neg /\ BigLE(n.mag, MaxUint64)

\* Int64 on a Number: success exactly on integer text within the int64 range
Int64Exact ==
  (res.op = "Int64" /\ res.d.t = "number") =>
    LET s == res.d.v
    IN /\ res.err = NoErr <=> (IsIntegerText(s) /\ InInt64(IntegerOf(s)))
       /\ res.err = NoErr => res.out = IntegerOf(s)

\* C4 as stated: Int64 succeeds and returns exactly n iff n is in the int64
\* range, and Uint64 succeeds and returns exactly n iff 0 <= n <= 2^64 - 1;
\* otherwise the coercion returns an error.
C4_ExactIffInRange ==
  /\ Int64Exact
  /\ (res.op = "Uint64" /\ res.d.t = "number") =>
       LET s == res.d.v
       IN /\ res.err = NoErr <=> (IsIntegerText(s) /\ InUint64(IntegerOf(s)))
          /\ res.err = NoErr => res.out = IntegerOf(s)

\* C4 amended: as C4, but Uint64 succeeds iff the text carries no sign and
\* its value is at most 2^64 - 1 ("-0" and "+1" are rejected).
C4_ExactIffInRangeUnsigned ==
  /\ Int64Exact
  /\ (res.op = "Uint64" /\ res.d.t = "number") =>
       LET s == res.d.v
       IN /\ res.err = NoErr <=>
               (IsIntegerText(s) /\ ~Signed(s) /\ InUint64(IntegerOf(s)))
          /\ res.err = NoErr => res.out = IntegerOf(s)

\* Uint64 has rejected a signed text that denotes zero
C4_Witness ==
  /\ res.op = "Uint64"
  /\ res.d = Num(<<"-", "0">>)
  /\ res.err # NoErr

\* C8: CheckGet reports found = TRUE with the child exactly when the value is
\* an Object that has the key (a Null child included) and found = FALSE
\* otherwise; Get returns that child when found and a Null handle otherwise.
C8_CheckGetFound ==
  /\ res.op = "CheckGet" =>
       LET has == IsMap(heap, res.d) /\ res.key \in DOMAIN Entries(heap, res.d)
       IN /\ res.found <=> has
          /\ res.found => res.out = Entries(heap, res.d)[res.key]
          /\ Get(heap, res.d, res.key) = IF res.found THEN res.out ELSE Nil
  /\ res.op = "Get" =>
       LET r == CheckGet(heap, res.d, res.key)
       IN res.out = IF r.found THEN r.h ELSE Nil

\* CheckGet has found a key whose child is Null
C8_Witness ==
  /\ res.op = "CheckGet"
  /\ res.found
  /\ res.out = Nil

\* the data the receiver of the last mutating call had before it
PreData == IF res.h = "root" THEN pre.root ELSE pre.child
\* the first i keys of the branch of the last call
Prefix(i) == SubSeq(res.branch, 1, i)

\* no cell under the handle data d lies on a cycle
Acyclic(hp, d) == \A a \in Reach(hp, RefsOf(d)) : a \notin Reach(hp, Succ(hp, a))

\* GetPath over the branch of the last SetPath returns its val, and over every
\* proper non-empty prefix an Object that has the next key
SetThenGet ==
  /\ GetPath(heap, Data(res.h), res.branch) = res.val
  /\ \A i \in 1..(Len(res.branch) - 1) :
       LET o == GetPath(heap, Data(res.h), Prefix(i))
       IN IsMap(heap, o) /\ res.branch[i + 1] \in DOMAIN Entries(heap, o)

FreshObject(x, k) ==
  /\ IsMap(heap, x)
  /\ pre.heap[x.v] = Free
  /\ x # res.val
  /\ DOMAIN Entries(heap, x) = {k}

\* the Object cell c has the same entry, or none, under k as before the call
SameEntry(c, k) ==
  /\ k \in DOMAIN pre.heap[c].m <=> k \in DOMAIN heap[c].m
  /\ k \in DOMAIN heap[c].m => heap[c].m[k] = pre.heap[c].m[k]

\* the treatment of the root and of every intermediate segment by the last
\* SetPath: a non-Object root and an absent or non-Object segment have become
\* a fresh Object holding only the next key; an Object is the same Object,
\* with every key but the next one as it was
SetPathSegments ==
  Len(res.branch) >= 1 =>
    /\ IF IsMap(pre.heap, PreData) THEN Data(res.h) = PreData
       ELSE FreshObject(Data(res.h), res.branch[1])
    /\ \A i \in 1..(Len(res.branch) - 1) :
         LET old == GetPath(pre.heap, PreData, Prefix(i))
             new == GetPath(heap, Data(res.h), Prefix(i))
         IN IF IsMap(pre.heap, old)
            THEN new = old
                 /\ \A k \in Keys \ {res.branch[i + 1]} : SameEntry(old.v, k)
            ELSE FreshObject(new, res.branch[i + 1])

SecondCallSame ==
  LET o == SetPath(heap, Data(res.h), res.branch, res.val)
  IN /\ ~o.full
     /\ o.d = Data(res.h)
     /\ Collect(o.hp, {root, child, res.val}) = heap

SlotsTo(hp, p, c) ==
  CASE hp[p].k = "map" -> {<<p, x>> : x \in {y \in DOMAIN hp[p].m : hp[p].m[y] = Ref(c)}}
    [] hp[p].k = "array" ->
         {<<p, i>> : i \in {j \in 1..Len(hp[p].e) : hp[p].e[j] = Ref(c)}}
    [] OTHER -> {}

\* the trees under the handles r and c are acyclic and no node has two parents
TreeShaped(hp, r, c) ==
  LET live == Reach(hp, RefsOf(r) \cup RefsOf(c))
  IN \A a \in live :
       /\ Cardinality(UNION {SlotsTo(hp, p, a) : p \in live}) <= 1
       /\ a \notin Reach(hp, Succ(hp, a))

TreeOf(hp, r) == [a \in Reach(hp, RefsOf(r)) |-> hp[a]]

\* the last call was a write through a child handle that Get(root, k) returns
WriteThroughChild ==
  /\ res.op \in {"Set", "Del", "SetPath"}
  /\ res.h = "child"
  /\ \E k \in Keys : pre.child = Get(pre.heap, pre.root, k)

\* C10: a write through c = Get(root, k) lands in root's tree exactly when
\* c's value is an Object: Set, Del and SetPath over a non-empty path then
\* write into the Object root holds under k (Set leaves the value under the
\* key, Del no entry, SetPath an entry under the first key of the path, with
\* the value at the end of the path unless the Object lies on a cycle); when
\* c's value is no Object, SetPath only rebinds c's data and Set and Del do
\* nothing: root's tree is unchanged.
C10_WriteThroughChild ==
  WriteThroughChild =>
    IF IsMap(pre.heap, pre.child)
    THEN /\ root = pre.root
         /\ res.op = "Set" =>
              child = pre.child /\ GetPath(heap, child, <<res.key>>) = res.val
         /\ res.op = "Del" =>
              child = pre.child /\ res.key \notin DOMAIN Entries(heap, child)
         /\ (res.op = "SetPath" /\ Len(res.branch) >= 1) =>
              /\ child = pre.child
              /\ res.branch[1] \in DOMAIN Entries(heap, child)
              /\ Acyclic(pre.heap, pre.child) =>
                   GetPath(heap, child, res.branch) = res.val
    ELSE /\ root = pre.root
         /\ TreeOf(heap, root) = TreeOf(pre.heap, pre.root)
         /\ res.op \in {"Set", "Del"} => child = pre.child
         /\ (res.op = "SetPath" /\ Len(res.branch) >= 1) =>
              FreshObject(child, res.branch[1])

\* a Set through the child handle has changed what GetPath from root returns
C10_Witness ==
  /\ WriteThroughChild
  /\ res.op = "Set"
  /\ IsMap(pre.heap, pre.child)
  /\ \E k \in Keys :
       /\ pre.child = Get(pre.heap, pre.root, k)
       /\ GetPath(heap, root, <<k, res.key>>) = res.val
       /\ GetPath(pre.heap, pre.root, <<k, res.key>>) # res.val

====
